---- MODULE Spec2Model ----
(***************************************************************************)
(* Model of src/app.py: a catalog kept in two JSON files (products,        *)
(* categories) and an upload folder of image files, mutated by HTTP        *)
(* request handlers.                                                       *)
(*                                                                         *)
(* A handler is a sequence of steps, one per access to the files or the    *)
(* folder: the read of a load, the truncating open and the write of a      *)
(* save, an os.remove, the open and the write of save_image.  What a       *)
(* handler does between two such steps is local to its thread.             *)
(*                                                                         *)
(* Spec      : requests are handled one at a time, each handler running to *)
(*             completion (one action per handler).                        *)
(* SpecConc  : requests of several clients overlap; the steps of their     *)
(*             handlers interleave.                                        *)
(* SpecUpload: the four handlers that take an upload, one request at a     *)
(*             time, on every kind of uploaded file.                       *)
(* SpecCleanup: the handlers that remove image files, one request at a     *)
(*             time, on catalogs whose image files are already gone.       *)
(***************************************************************************)
EXTENDS Integers, Sequences, FiniteSets, TLC

\* ------------------------------------------------------------------ bounds
MaxId == 2          \* a product is created while its new id is <= MaxId
MaxCategories == 1  \* a category is created while its new id is <= MaxCategories
MaxViews == 1       \* record_view is explored while views < MaxViews
MaxUploadId == 1    \* SpecUpload: records per collection
NProcs == 2         \* SpecConc: requests in flight at once
MaxReqs == 3        \* SpecConc: requests started in one behaviour

\* Form values: request.form['name'], ['description'], ['price'] and
\* ['category_id'] as the strings the client sent.
Names == {"a"}
Descriptions == {"d"}
Prices == {"10"}
BadPrices == {"x"}
CategoryIdInputs == {"1", "2"}
BadCategoryIds == {""}
Times == {1}                 \* values of int(time.time())

\* float(s) and int(s): the number, or ValueError.
ParseFloat(s) ==
  CASE s = "10" -> [ok |-> TRUE, val |-> 10]
    [] OTHER -> [ok |-> FALSE, val |-> 0]
ParseInt(s) ==
  CASE s = "1" -> [ok |-> TRUE, val |-> 1]
    [] s = "2" -> [ok |-> TRUE, val |-> 2]
    [] s = "3" -> [ok |-> TRUE, val |-> 3]
    [] OTHER -> [ok |-> FALSE, val |-> 0]

\* ------------------------------------------------------------ file names
\* f"{kind}_{id}" (ts = 0) or f"{kind}_{id}_{ts}", followed by ext.
FileName(kind, id, ts, ext) == [kind |-> kind, id |-> id, ts |-> ts, ext |-> ext]
NoFile == FileName("none", 0, 0, "")
BaseName(kind, id, ts) == [kind |-> kind, id |-> id, ts |-> ts]

\* url_for('uploaded_file', filename=n) and the way back,
\* secure_filename(os.path.basename(url)); the stored names consist of
\* [A-Za-z0-9_.] only, which neither quoting nor secure_filename alters.
url_for(n) == [dir |-> "uploads", filename |-> n]
basename_of(url) == url.filename

\* Uploaded file names.  "@.png" is a name secure_filename reduces to one
\* without an extension.
FileNames == {"photo.png", "PHOTO.PNG", "logo.svg", "@.png"}

\* werkzeug's secure_filename: the name in ASCII, path separators and white
\* space replaced, every character outside [A-Za-z0-9_.-] dropped, then "."
\* and "_" stripped from both ends.
secure_filename(fn) ==
  CASE fn = "@.png" -> "png"
    [] OTHER -> fn

\* os.path.splitext(fn)[1]: from the last dot on; "" without a dot.
splitext(fn) ==
  CASE fn = "photo.png" -> ".png"
    [] fn = "PHOTO.PNG" -> ".PNG"
    [] fn = "logo.svg" -> ".svg"
    [] fn = "@.png" -> ".png"
    [] OTHER -> ""

\* str.lower on an extension.
Lower(e) ==
  CASE e = ".PNG" -> ".png"
    [] e = ".SVG" -> ".svg"
    [] e = ".JPG" -> ".jpg"
    [] OTHER -> e
supported_formats_for_conversion == {".png", ".jpg", ".jpeg", ".bmp", ".gif", ".tiff"}

\* An upload: its file name and whether Pillow can decode and re-encode
\* its bytes.  filename = "" is a request without an image.
Upload(fn, valid) == [filename |-> fn, valid |-> valid]
NoUpload == Upload("", FALSE)
Uploads == {Upload(fn, v) : fn \in FileNames, v \in BOOLEAN}

\* The upload folder: the files that have a name in it, as records
\* [name, bytes, handles].  bytes is "webp" (the re-encoded image),
\* "original" (the uploaded bytes) or "empty" (a file that has been opened
\* for writing and not yet written); a name ending in .webp is only ever
\* written with "webp", any other name with "original".  handles is the set
\* of threads that hold the file open for writing.  A file whose name has
\* been removed is not in the folder, whoever still holds it open.
File(n, bytes) == [name |-> n, bytes |-> bytes, handles |-> {}]
Exists(folder, n) == \E f \in folder : f.name = n
\* Image.save(path, 'webp') / FileStorage.save(path) open the path for
\* writing: the file that bears the name is truncated, and when no file
\* bears it a new file is created; thread tid holds that file open.
CreateFile(folder, n, tid) ==
  IF Exists(folder, n)
  THEN {IF f.name = n
        THEN [name |-> n, bytes |-> "empty", handles |-> f.handles \cup {tid}]
        ELSE f : f \in folder}
  ELSE folder \cup {[name |-> n, bytes |-> "empty", handles |-> {tid}]}
\* ... and then write through the open file and close it.  The bytes reach
\* the folder only when the file thread tid opened still bears the name:
\* after an os.remove they go to the removed file, and a file another
\* thread has created under the name since is left as it is.
WriteBytes(folder, n, bytes, tid) ==
  {IF f.name = n /\ tid \in f.handles
   THEN [name |-> n, bytes |-> bytes, handles |-> f.handles \ {tid}]
   ELSE f : f \in folder}

\* os.remove without the try/except: FileNotFoundError leaves the handler.
os_remove_uncaught(folder, n) ==
  [folder |-> {f \in folder : f.name # n},
   missing |-> ~Exists(folder, n),
   raised |-> ~Exists(folder, n)]

\* os.remove inside try/except (FileNotFoundError, IndexError): pass.
\* missing: the file was not there; raised: an exception left the try block.
os_remove(folder, n) ==
  [folder |-> {f \in folder : f.name # n},
   missing |-> ~Exists(folder, n),
   raised |-> FALSE]

\* save_image without the .lower() on the extension.
save_image_case_sensitive(file_storage, output_folder, basename) ==
  LET original_extension == splitext(secure_filename(file_storage.filename))
      webp == FileName(basename.kind, basename.id, basename.ts, ".webp")
      final == FileName(basename.kind, basename.id, basename.ts, original_extension)
  IN IF original_extension \in supported_formats_for_conversion /\ file_storage.valid
     THEN [name |-> webp, converted |-> TRUE,
           bytes |-> "webp", folder |-> output_folder]
     ELSE [name |-> final, converted |-> FALSE,
           bytes |-> "original", folder |-> output_folder]

\* save_image up to the opening of the file it stores: the name and the
\* conversion flag it will return, the bytes it will write, and the folder
\* it will write them in (os.makedirs leaves an existing folder as it is).
save_image(file_storage, output_folder, basename) ==
  LET original_extension == Lower(splitext(secure_filename(file_storage.filename)))
      webp == FileName(basename.kind, basename.id, basename.ts, ".webp")
      final == FileName(basename.kind, basename.id, basename.ts, original_extension)
  IN IF original_extension \in supported_formats_for_conversion /\ file_storage.valid
     THEN [name |-> webp, converted |-> TRUE,
           bytes |-> "webp", folder |-> output_folder]
     ELSE [name |-> final, converted |-> FALSE,
           bytes |-> "original", folder |-> output_folder]

\* ------------------------------------------------------------ collections
Ids(coll) == {coll[i].id : i \in 1..Len(coll)}
SetMax(S) == CHOOSE m \in S : \A x \in S : x <= m

\* New ids without the + 1, and new ids counted from the length.
NewIdNoIncrement(coll) == IF coll = <<>> THEN 1 ELSE SetMax(Ids(coll))

NewIdByLength(coll) == Len(coll) + 1

\* max([p['id'] for p in products]) + 1 if products else 1
NewId(coll) == IF coll = <<>> THEN 1 ELSE SetMax(Ids(coll)) + 1

\* next((p for p in coll if p['id'] == id), None) as an index; 0 is None.
FindIdx(coll, id) ==
  IF \E i \in 1..Len(coll) : coll[i].id = id
  THEN CHOOSE i \in 1..Len(coll) :
         coll[i].id = id /\ \A j \in 1..(i-1) : coll[j].id # id
  ELSE 0

\* [p for p in coll if p['id'] != id]
WithoutId(coll, id) == SelectSeq(coll, LAMBDA p : p.id # id)

\* --------------------------------------------------------- JSON file store
\* A JSON file: st = "ok" (decodable, data is the list), "missing", or
\* "corrupt" (json.load raises JSONDecodeError; len is the length of its
\* text, 0 for a file that open(..., 'w') has just truncated).
OkFile(data) == [st |-> "ok", data |-> data, len |-> 0]
MissingFile == [st |-> "missing", data |-> <<>>, len |-> 0]
CorruptFile(len) == [st |-> "corrupt", data |-> <<>>, len |-> len]

\* The list a load finds in the file: [] when it takes the except branch.
View(f) == IF f.st = "ok" THEN f.data ELSE <<>>

\* len(str(n)), and the length of a form string inside the JSON text (the
\* names and descriptions of the input sets have one character).
Digits(n) == IF n < 10 THEN 1 ELSE IF n < 100 THEN 2 ELSE 3
StrLen(s) == IF s = "" THEN 0 ELSE 1
\* A float is written with its fraction: 10.0
FloatLen(x) == Digits(x) + 2
ExtLen(e) == IF e = "" THEN 0 ELSE IF e = ".webp" THEN 5 ELSE 4
\* "/uploads/" + "product_1.webp", "category_1_1.png", ...
UrlLen(url) ==
  LET n == url.filename IN
  9 + (IF n.kind = "product" THEN 7 ELSE 8) + 1 + Digits(n.id)
    + (IF n.ts = 0 THEN 0 ELSE 1 + Digits(n.ts)) + ExtLen(n.ext)

\* The length of json.dump(coll, f, indent=4, ensure_ascii=False): "[]" for
\* the empty list; else the brackets and, for each record, its keys,
\* indentation and separators (159 characters for a product, 69 for a
\* category) and its values.
RECURSIVE SumLen(_, _)
SumLen(coll, k) ==
  IF k = 0 THEN 0
  ELSE LET r == coll[k] IN
       SumLen(coll, k - 1)
       + (IF "views" \in DOMAIN r
          THEN 159 + Digits(r.id) + StrLen(r.name) + StrLen(r.description)
                   + FloatLen(r.price) + UrlLen(r.image)
                   + Digits(r.category_id) + Digits(r.views)
          ELSE 69 + Digits(r.id) + StrLen(r.name) + UrlLen(r.image))
TextLen(coll) == 2 + SumLen(coll, Len(coll))
FileLen(f) == IF f.st = "ok" THEN TextLen(f.data) ELSE f.len

\* open(FILE, 'w'): the file exists and is empty.
Truncate(f) == CorruptFile(0)

\* json.dump and the close of the with block: the text (shorter than the
\* file object's buffer) is written at offset 0 in one write.  Over a file
\* that is not longer, the file is the text; over a longer file (another
\* writer's, written after this writer opened the file) the old tail stays
\* behind the text and the file is undecodable.
Dump(f, coll) ==
  IF FileLen(f) <= TextLen(coll) THEN OkFile(coll) ELSE CorruptFile(FileLen(f))

\* --------------------------------------------------- requests, responses
\* request.form: the four fields as strings; Absent is a key the client did
\* not send (request.form[key] raises BadRequestKeyError: 400).
Absent == "(absent)"
Form(name, description, price, category_id) ==
  [name |-> name, description |-> description, price |-> price,
   category_id |-> category_id]
NoForm == Form("", "", "", "")

\* What evaluating request.form[key] (through float / int for price and
\* category_id) does: "none", or the status of the exception.
FieldError(form, key) ==
  IF form[key] = Absent THEN "400"
  ELSE IF key = "price" /\ ~ParseFloat(form.price).ok THEN "500"
  ELSE IF key = "category_id" /\ ~ParseInt(form.category_id).ok THEN "500"
  ELSE "none"
\* The first exception of evaluating the keys in this order.
FormError(form, keys) ==
  IF \A k \in 1..Len(keys) : FieldError(form, keys[k]) = "none" THEN "none"
  ELSE FieldError(form, keys[CHOOSE k \in 1..Len(keys) :
                               /\ FieldError(form, keys[k]) # "none"
                               /\ \A j \in 1..(k-1) : FieldError(form, keys[j]) = "none"])
ProductKeys == <<"name", "description", "price", "category_id">>
CategoryKeys == <<"name">>

\* A request: the handler it is routed to, whether it carries the admin's
\* session cookie, its method, the id in its URL, its form and its upload.
\* t is the value int(time.time()) has while the request is handled.
Req(op, authed, method, id, form, file, t) ==
  [op |-> op, authed |-> authed, method |-> method, id |-> id, form |-> form,
   file |-> file, t |-> t]
NoReq == Req("none", FALSE, "GET", 0, NoForm, NoUpload, 0)

AdminOps == {"admin", "edit_product", "delete_product", "manage_categories",
             "edit_category", "delete_category"}
PublicOps == {"index", "show_category", "record_view"}

\* The thread of a request: pc is the function it is about to call or the
\* step it is at inside load_* / save_* ("idle": no request, "done": the
\* response is ready); the rest are the handler's local variables.
\*   products, categories  the loaded (and then modified) lists
\*   k                     index of product_to_edit / category_to_edit, or
\*                         of the product the loop of delete_category is at
\*   target                the file name handed to os.remove
\*   base                  the basename handed to save_image
\*   stored, warning       the name save_image stores the upload under and
\*                         returns; the warning flashed when not converted
\*   count                 products_deleted_count
\*   missing               an os.remove found no file
\*   reset                 a load took its except branch
\*   code                  "ok" (page or JSON rendered), "redirect" (success
\*                         flash and redirect), "required" (image missing),
\*                         "notfound" (flash and redirect), "404", "login"
\*                         (login_required redirect), "400" / "500"
\*                         (uncaught exception)
\*   shown                 what was handed to render_template
\*   before                the file as it was when this thread opened it
\*                         for writing
\*   tid                   the thread serving the request
NoShown == [products |-> <<>>, categories |-> <<>>, category |-> <<>>]
IdleProc ==
  [pc |-> "idle", req |-> NoReq, products |-> <<>>, categories |-> <<>>,
   k |-> 0, target |-> NoFile, base |-> BaseName("none", 0, 0),
   stored |-> NoFile, warning |-> FALSE, count |-> 0, missing |-> FALSE,
   reset |-> FALSE, code |-> "none", shown |-> NoShown, before |-> MissingFile,
   tid |-> 0]
NewProc(tid, req) == [IdleProc EXCEPT !.pc = "start", !.req = req, !.tid = tid]

Call(p, fn) == [p EXCEPT !.pc = fn]
Done(p, code) == [p EXCEPT !.pc = "done", !.code = code]
DonePage(p, products, categories, category) ==
  [p EXCEPT !.pc = "done", !.code = "ok",
            !.shown = [products |-> products, categories |-> categories,
                       category |-> category]]

\* What a request did: the response, and for the claims what the handler
\* stored and met.  req is the request without its form.
Response(p) ==
  [req |-> [p.req EXCEPT !.form = NoForm], code |-> p.code, warning |-> p.warning,
   count |-> p.count, shown |-> p.shown, stored |-> p.stored,
   reset |-> p.reset, missing |-> p.missing]
NoResponse == Response(IdleProc)

\* ---------------------------------------------------------------- handlers
\* A handler, between two calls: p is the thread, ret the function that has
\* just returned ("start": the request arrived); the result is the thread
\* about to make its next call, or done.

index(p, ret) ==
  CASE ret = "start" -> Call(p, "load_products")
    [] ret = "load_products" -> Call(p, "load_categories")
    [] ret = "load_categories" -> DonePage(p, p.products, p.categories, <<>>)

\* The comparison of the cascade made on the product's own id.
InCategoryById(q, category_id) == q.id = category_id

\* p.get('category_id') == category_id
InCategory(q, category_id) == q.category_id = category_id

show_category(p, ret) ==
  CASE ret = "start" -> Call(p, "load_products")
    [] ret = "load_products" -> Call(p, "load_categories")
    [] ret = "load_categories" ->
         LET i == FindIdx(p.categories, p.req.id)
         IN DonePage(p, SelectSeq(p.products, LAMBDA q : InCategory(q, p.req.id)),
                     p.categories,
                     IF i = 0 THEN <<>> ELSE <<p.categories[i]>>)

admin(p, ret) ==
  IF p.req.method = "GET"
  THEN CASE ret = "start" -> Call(p, "load_products")
         [] ret = "load_products" -> Call(p, "load_categories")
         [] ret = "load_categories" -> DonePage(p, p.products, p.categories, <<>>)
  ELSE CASE ret = "start" -> Call(p, "load_products")
         [] ret = "load_products" ->
              IF p.req.file.filename = "" THEN Done(p, "required")
              ELSE Call([p EXCEPT !.base = BaseName("product", NewId(p.products), 0)],
                        "save_image")
         [] ret = "save_image" ->
              LET form == p.req.form
                  err == FormError(form, ProductKeys)
                  new_product ==
                    [id |-> NewId(p.products), name |-> form.name,
                     description |-> form.description,
                     price |-> ParseFloat(form.price).val,
                     image |-> url_for(p.stored),
                     category_id |-> ParseInt(form.category_id).val,
                     views |-> 0]
              IN IF err # "none" THEN Done(p, err)
                 ELSE Call([p EXCEPT !.products = Append(@, new_product)],
                           "save_products")
         [] ret = "save_products" -> Done(p, "redirect")

manage_categories(p, ret) ==
  IF p.req.method = "GET"
  THEN CASE ret = "start" -> Call(p, "load_categories")
         [] ret = "load_categories" -> DonePage(p, <<>>, p.categories, <<>>)
  ELSE CASE ret = "start" -> Call(p, "load_categories")
         [] ret = "load_categories" ->
              IF p.req.file.filename = "" THEN Done(p, "required")
              ELSE Call([p EXCEPT !.base = BaseName("category", NewId(p.categories), 0)],
                        "save_image")
         [] ret = "save_image" ->
              LET err == FormError(p.req.form, CategoryKeys)
                  new_category == [id |-> NewId(p.categories), name |-> p.req.form.name,
                                   image |-> url_for(p.stored)]
              IN IF err # "none" THEN Done(p, err)
                 ELSE Call([p EXCEPT !.categories = Append(@, new_category)],
                           "save_categories")
         [] ret = "save_categories" -> Done(p, "redirect")

edit_product(p, ret) ==
  CASE ret = "start" -> Call(p, "load_products")
    [] ret = "load_products" ->
         LET i == FindIdx(p.products, p.req.id)
             form == p.req.form
             err == FormError(form, ProductKeys)
         IN IF i = 0 THEN Done(p, "notfound")
            ELSE IF p.req.method = "GET" THEN Call([p EXCEPT !.k = i], "load_categories")
            ELSE IF err # "none" THEN Done(p, err)
            ELSE LET edited ==
                       [p EXCEPT !.k = i,
                                 !.products[i].name = form.name,
                                 !.products[i].description = form.description,
                                 !.products[i].price = ParseFloat(form.price).val,
                                 !.products[i].category_id = ParseInt(form.category_id).val]
                 IN IF p.req.file.filename = "" THEN Call(edited, "save_products")
                    ELSE Call([edited EXCEPT
                                 !.target = basename_of(p.products[i].image)],
                              "os.remove")
    [] ret = "os.remove" ->
         Call([p EXCEPT !.base = BaseName("product", p.req.id, p.req.t)], "save_image")
    [] ret = "save_image" ->
         Call([p EXCEPT !.products[p.k].image = url_for(p.stored)], "save_products")
    [] ret = "save_products" -> Done(p, "redirect")
    [] ret = "load_categories" -> DonePage(p, <<p.products[p.k]>>, p.categories, <<>>)

edit_category(p, ret) ==
  CASE ret = "start" -> Call(p, "load_categories")
    [] ret = "load_categories" ->
         LET i == FindIdx(p.categories, p.req.id)
             err == FormError(p.req.form, CategoryKeys)
         IN IF i = 0 THEN Done(p, "notfound")
            ELSE IF p.req.method = "GET" THEN DonePage(p, <<>>, <<>>, <<p.categories[i]>>)
            ELSE IF err # "none" THEN Done(p, err)
            ELSE LET edited == [p EXCEPT !.k = i,
                                         !.categories[i].name = p.req.form.name]
                 IN IF p.req.file.filename = "" THEN Call(edited, "save_categories")
                    ELSE Call([edited EXCEPT
                                 !.target = basename_of(p.categories[i].image)],
                              "os.remove")
    [] ret = "os.remove" ->
         Call([p EXCEPT !.base = BaseName("category", p.req.id, p.req.t)], "save_image")
    [] ret = "save_image" ->
         Call([p EXCEPT !.categories[p.k].image = url_for(p.stored)], "save_categories")
    [] ret = "save_categories" -> Done(p, "redirect")

delete_product(p, ret) ==
  CASE ret = "start" -> Call(p, "load_products")
    [] ret = "load_products" ->
         LET i == FindIdx(p.products, p.req.id)
         IN IF i # 0
            THEN Call([p EXCEPT !.target = basename_of(p.products[i].image)],
                      "os.remove")
            ELSE Call([p EXCEPT !.products = WithoutId(@, p.req.id)], "save_products")
    [] ret = "os.remove" ->
         Call([p EXCEPT !.products = WithoutId(@, p.req.id)], "save_products")
    [] ret = "save_products" -> Done(p, "redirect")

\* The loop of delete_category from the product at index from on: the next
\* product of the category has its image removed; after the last one
\* products_to_keep is saved when a product was removed.
Cascade(p, from) ==
  LET rest == {j \in from..Len(p.products) : InCategory(p.products[j], p.req.id)}
  IN IF rest # {}
     THEN LET j == CHOOSE j \in rest : \A l \in rest : j <= l
          IN Call([p EXCEPT !.k = j, !.target = basename_of(p.products[j].image)],
                  "os.remove in loop")
     ELSE IF p.count > 0
     THEN Call([p EXCEPT !.products =
                  SelectSeq(@, LAMBDA q : ~InCategory(q, p.req.id))],
               "save_products")
     ELSE Done(p, "redirect")

delete_category(p, ret) ==
  CASE ret = "start" -> Call(p, "load_categories")
    [] ret = "load_categories" -> Call(p, "load_products")
    [] ret = "load_products" ->
         LET i == FindIdx(p.categories, p.req.id)
         IN IF i = 0 THEN Done(p, "notfound")
            ELSE Call([p EXCEPT !.target = basename_of(p.categories[i].image)],
                      "os.remove")
    [] ret = "os.remove" ->
         Call([p EXCEPT !.categories = WithoutId(@, p.req.id)], "save_categories")
    [] ret = "save_categories" -> Cascade(p, 1)
    [] ret = "os.remove in loop" -> Cascade([p EXCEPT !.count = @ + 1], p.k + 1)
    [] ret = "save_products" -> Done(p, "redirect")

record_view(p, ret) ==
  CASE ret = "start" -> Call(p, "load_products")
    [] ret = "load_products" ->
         LET i == FindIdx(p.products, p.req.id)
         IN IF i = 0 THEN Done(p, "404")
            ELSE Call([p EXCEPT !.products[i].views = @ + 1], "save_products")
    [] ret = "save_products" -> Done(p, "ok")

\* @login_required, then the route table.
Handler(p, ret) ==
  IF p.req.op \in AdminOps /\ ~p.req.authed THEN Done(p, "login")
  ELSE CASE p.req.op = "index" -> index(p, ret)
         [] p.req.op = "show_category" -> show_category(p, ret)
         [] p.req.op = "admin" -> admin(p, ret)
         [] p.req.op = "manage_categories" -> manage_categories(p, ret)
         [] p.req.op = "edit_product" -> edit_product(p, ret)
         [] p.req.op = "edit_category" -> edit_category(p, ret)
         [] p.req.op = "delete_product" -> delete_product(p, ret)
         [] p.req.op = "delete_category" -> delete_category(p, ret)
         [] p.req.op = "record_view" -> record_view(p, ret)

\* -------------------------------------------------------------------- steps
\* x = [p, pf, cf, up]: a thread with the two JSON files and the folder.  A
\* step is one access to a file or to the folder, followed by what the
\* handler does locally until its next call.
Return(x, ret) == [x EXCEPT !.p = Handler(x.p, ret)]

\* with open(FILE, 'w') as f: the file is truncated.
OpenW(x, file) == [x EXCEPT ![file] = Truncate(@), !.p.before = x[file]]

\* A save that keeps what the file held when it was opened and adds the
\* records of the list that were not there.
save_products_keeping(x) ==
  CASE x.p.pc = "save_products" ->
         [OpenW(x, "pf") EXCEPT !.p.pc = "save_products: json.dump"]
    [] x.p.pc = "save_products: json.dump" ->
         LET kept == View(x.p.before)
             added == SelectSeq(x.p.products,
                                LAMBDA q : \A k \in 1..Len(kept) : kept[k] # q)
         IN Return([x EXCEPT !.pf = Dump(@, kept \o added)], "save_products")

\* save_products(products): the open, then json.dump and the close.
save_products(x) ==
  CASE x.p.pc = "save_products" ->
         [OpenW(x, "pf") EXCEPT !.p.pc = "save_products: json.dump"]
    [] x.p.pc = "save_products: json.dump" ->
         Return([x EXCEPT !.pf = Dump(@, x.p.products)], "save_products")

save_categories(x) ==
  CASE x.p.pc = "save_categories" ->
         [OpenW(x, "cf") EXCEPT !.p.pc = "save_categories: json.dump"]
    [] x.p.pc = "save_categories: json.dump" ->
         Return([x EXCEPT !.cf = Dump(@, x.p.categories)], "save_categories")

\* A load that returns [] for a missing or undecodable file without
\* rewriting it.
load_products_no_rewrite(x) ==
  IF x.pf.st = "ok"
  THEN Return([x EXCEPT !.p.products = x.pf.data], "load_products")
  ELSE Return([x EXCEPT !.p.products = <<>>, !.p.reset = TRUE], "load_products")

\* load_products(): open and json.load; on FileNotFoundError or
\* JSONDecodeError save_products([]) (its open, then its dump), return [].
load_products(x) ==
  CASE x.p.pc = "load_products" ->
         IF x.pf.st = "ok"
         THEN Return([x EXCEPT !.p.products = x.pf.data], "load_products")
         ELSE [x EXCEPT !.p.pc = "load_products: save_products", !.p.reset = TRUE]
    [] x.p.pc = "load_products: save_products" ->
         [OpenW(x, "pf") EXCEPT !.p.pc = "load_products: json.dump"]
    [] x.p.pc = "load_products: json.dump" ->
         Return([x EXCEPT !.pf = Dump(@, <<>>), !.p.products = <<>>], "load_products")

load_categories(x) ==
  CASE x.p.pc = "load_categories" ->
         IF x.cf.st = "ok"
         THEN Return([x EXCEPT !.p.categories = x.cf.data], "load_categories")
         ELSE [x EXCEPT !.p.pc = "load_categories: save_categories", !.p.reset = TRUE]
    [] x.p.pc = "load_categories: save_categories" ->
         [OpenW(x, "cf") EXCEPT !.p.pc = "load_categories: json.dump"]
    [] x.p.pc = "load_categories: json.dump" ->
         Return([x EXCEPT !.cf = Dump(@, <<>>), !.p.categories = <<>>], "load_categories")

\* try: os.remove(os.path.join(UPLOAD_FOLDER, secure_filename(filename)))
\* except (FileNotFoundError, IndexError): pass
Remove(x) ==
  LET rm == os_remove(x.up, x.p.target)
  IN IF rm.raised THEN [x EXCEPT !.p = Done([x.p EXCEPT !.missing = TRUE], "500")]
     ELSE Return([x EXCEPT !.up = rm.folder, !.p.missing = @ \/ rm.missing], x.p.pc)

\* new_filename, converted = save_image(file, UPLOAD_FOLDER, basename), and
\* the warning flashed when not converted.
SaveImage(x) ==
  CASE x.p.pc = "save_image" ->
         LET img == save_image(x.p.req.file, x.up, x.p.base)
         IN [x EXCEPT !.up = CreateFile(img.folder, img.name, x.p.tid),
                      !.p.stored = img.name,
                      !.p.warning = ~img.converted,
                      !.p.pc = "save_image: write"]
    [] x.p.pc = "save_image: write" ->
         Return([x EXCEPT !.up = WriteBytes(@, x.p.stored,
                                            IF x.p.warning THEN "original" ELSE "webp",
                                            x.p.tid)],
                "save_image")

\* The next step of thread x.p.
Exec(x) ==
  CASE x.p.pc \in {"load_products", "load_products: save_products",
                   "load_products: json.dump"} -> load_products(x)
    [] x.p.pc \in {"load_categories", "load_categories: save_categories",
                   "load_categories: json.dump"} -> load_categories(x)
    [] x.p.pc \in {"save_products", "save_products: json.dump"} -> save_products(x)
    [] x.p.pc \in {"save_categories", "save_categories: json.dump"} -> save_categories(x)
    [] x.p.pc \in {"os.remove", "os.remove in loop"} -> Remove(x)
    [] x.p.pc \in {"save_image", "save_image: write"} -> SaveImage(x)

\* A request arrives: @login_required and the handler up to its first call.
Start(tid, req, pf, cf, up) ==
  [p |-> Handler(NewProc(tid, req), "start"), pf |-> pf, cf |-> cf, up |-> up]

\* The handler run to its response with no other thread in between.
RECURSIVE Run(_)
Run(x) == IF x.p.pc = "done" THEN x ELSE Run(Exec(x))

\* ------------------------------------------------------------------ state
VARIABLES
  productsFile,    \* PRODUCTS_FILE
  categoriesFile,  \* CATEGORIES_FILE
  uploads,         \* the files of app.config['UPLOAD_FOLDER']
  resp,            \* what the last completed request did
  procs,           \* SpecConc: the threads, with their requests and locals
  started,         \* SpecConc: number of requests started
  adminOverlap,    \* SpecConc: two admin requests were in flight at once
  lastCreate       \* SpecConc: the last create-product request that wrote:
                   \* the list it had loaded, the list it wrote, and the
                   \* threads that had loaded their list by then

vars == <<productsFile, categoriesFile, uploads, resp, procs, started,
          adminOverlap, lastCreate>>
concVars == <<procs, started, adminOverlap, lastCreate>>

NoCreate == [made |-> FALSE, loaded |-> <<>>, written |-> <<>>, id |-> 0,
             stored |-> NoFile, code |-> "none", rivals |-> {}, raced |-> FALSE]

\* An empty upload folder, and each JSON file either not yet written (a
\* fresh deployment, lines 17-24) or left empty by a process that died
\* inside save_products / save_categories after open(..., 'w') truncated it
\* (a crash while the last record, its image already removed, is deleted).
InitFiles == {MissingFile, CorruptFile(0)}

Init ==
  /\ productsFile \in InitFiles
  /\ categoriesFile \in InitFiles
  /\ uploads = {}
  /\ resp = NoResponse
  /\ procs = [i \in 1..NProcs |-> IdleProc]
  /\ started = 0
  /\ adminOverlap = FALSE
  /\ lastCreate = NoCreate

\* ------------------------------------------------------- request inputs
IdInputs == 1..MaxId             \* <int:product_id>
CategoryIds == 1..MaxCategories  \* <int:category_id> of edit_category
CategoryUrlIds == {1, 2}         \* <int:category_id> of delete / show_category
\* Uploads: for a new product one that converts and one that does not, for
\* the other forms one that converts; and every kind.
FileInputs == {Upload("photo.png", TRUE), Upload("PHOTO.PNG", FALSE)}
EditFileInputs == {Upload("photo.png", TRUE)}
AllFileInputs == Uploads
\* The product form, filled in well, or with a price that is no number, or
\* with the empty category choice of a catalog without categories, or
\* without the price field; the category form has the name only.
ProductForms ==
  {Form(n, d, pr, c) : n \in Names, d \in Descriptions, pr \in Prices,
                       c \in CategoryIdInputs}
BadProductForms ==
  {Form(n, d, pr, c) : n \in Names, d \in Descriptions, pr \in BadPrices, c \in {"1"}}
  \cup {Form(n, d, pr, c) : n \in Names, d \in Descriptions, pr \in Prices,
                            c \in BadCategoryIds}
  \cup {Form(n, d, Absent, c) : n \in Names, d \in Descriptions, c \in {"1"}}
CategoryForms == {Form(n, Absent, Absent, Absent) : n \in Names}

Anonymous(op) == Req(op, FALSE, "POST", 0, NoForm, NoUpload, 0)
Get(op, id) == Req(op, TRUE, "GET", id, NoForm, NoUpload, 0)
Create(op, forms, files) ==
  {Req(op, TRUE, "POST", 0, fm, f, 0) : fm \in forms, f \in files}
\* An edit without an upload never reads the clock.
Edit(op, ids, forms, files, times) ==
  {Req(op, TRUE, "POST", i, fm, NoUpload, 0) : i \in ids, fm \in forms}
  \cup {Req(op, TRUE, "POST", i, fm, f, t) :
          i \in ids, fm \in forms, f \in files, t \in times}
Delete(op, ids) == {Req(op, TRUE, "POST", i, NoForm, NoUpload, 0) : i \in ids}

admin_requests(files) ==
  {Get("admin", 0)}
  \cup Create("admin", ProductForms, files \cup {NoUpload})
  \cup Create("admin", BadProductForms, EditFileInputs)
manage_categories_requests(files) ==
  {Get("manage_categories", 0)}
  \cup Create("manage_categories", CategoryForms, files \cup {NoUpload})
edit_product_requests(files) ==
  {Get("edit_product", i) : i \in IdInputs}
  \cup Edit("edit_product", IdInputs, ProductForms, files, Times)
  \cup Edit("edit_product", IdInputs, BadProductForms, EditFileInputs, Times)
edit_category_requests(files) ==
  {Get("edit_category", i) : i \in CategoryIds}
  \cup Edit("edit_category", CategoryIds, CategoryForms, files, Times)
delete_product_requests == Delete("delete_product", IdInputs)
delete_category_requests == Delete("delete_category", CategoryUrlIds)
record_view_requests ==
  {Req("record_view", FALSE, "POST", i, NoForm, NoUpload, 0) : i \in IdInputs}
index_requests == {Req("index", FALSE, "GET", 0, NoForm, NoUpload, 0)}
show_category_requests ==
  {Req("show_category", FALSE, "GET", i, NoForm, NoUpload, 0) : i \in CategoryUrlIds}
anonymous_requests == {Anonymous(op) : op \in AdminOps}

\* The bounds: a create is explored while its new id is within the bound, a
\* record_view while the counter is below MaxViews.
Explored(req, products, categories) ==
  /\ (req.op = "admin" /\ req.method = "POST" /\ req.authed)
        => NewId(products) <= MaxId
  /\ (req.op = "manage_categories" /\ req.method = "POST" /\ req.authed)
        => NewId(categories) <= MaxCategories
  /\ (req.op = "record_view" /\ FindIdx(products, req.id) # 0)
        => products[FindIdx(products, req.id)].views < MaxViews

\* ------------------------------------------ Spec: one request at a time
Serve(req) ==
  /\ Explored(req, View(productsFile), View(categoriesFile))
  /\ \E o \in {Run(Start(1, req, productsFile, categoriesFile, uploads))} :
       /\ productsFile' = o.pf
       /\ categoriesFile' = o.cf
       /\ uploads' = o.up
       /\ resp' = Response(o.p)
       /\ UNCHANGED concVars

LoginRequired ==
  \E req \in anonymous_requests :
    /\ ~req.authed
    /\ Serve(req)
Index ==
  \E req \in index_requests :
    /\ req.op = "index"
    /\ Serve(req)
ShowCategory ==
  \E req \in show_category_requests :
    /\ req.op = "show_category"
    /\ Serve(req)
Admin ==
  \E req \in admin_requests(FileInputs) :
    /\ req.op = "admin"
    /\ Serve(req)
ManageCategories ==
  \E req \in manage_categories_requests(EditFileInputs) :
    /\ req.op = "manage_categories"
    /\ Serve(req)
EditProduct ==
  \E req \in edit_product_requests(EditFileInputs) :
    /\ req.op = "edit_product"
    /\ Serve(req)
EditCategory ==
  \E req \in edit_category_requests(EditFileInputs) :
    /\ req.op = "edit_category"
    /\ Serve(req)
DeleteProduct ==
  \E req \in delete_product_requests :
    /\ req.op = "delete_product"
    /\ Serve(req)
DeleteCategory ==
  \E req \in delete_category_requests :
    /\ req.op = "delete_category"
    /\ Serve(req)
RecordView ==
  \E req \in record_view_requests :
    /\ req.op = "record_view"
    /\ Serve(req)

Next ==
  \/ LoginRequired
  \/ Index
  \/ ShowCategory
  \/ Admin
  \/ ManageCategories
  \/ EditProduct
  \/ EditCategory
  \/ DeleteProduct
  \/ DeleteCategory
  \/ RecordView

Spec == Init /\ [][Next]_vars

\* ----------------------------------------- SpecConc: overlapping requests
\* The server handles each request on its own thread (app.run, line 364):
\* the steps of the handlers in flight interleave in any order.
ConcFiles == {Upload("photo.png", TRUE)}
ConcTimes == {1}
ConcForms == {Form(n, d, pr, "1") : n \in Names, d \in Descriptions, pr \in Prices}
ConcBadForms ==
  {Form(n, d, pr, "1") : n \in Names, d \in Descriptions, pr \in BadPrices}
conc_requests ==
  Create("admin", ProductForms, ConcFiles)
  \cup Create("admin", ConcBadForms, ConcFiles)
  \cup Create("manage_categories", CategoryForms, ConcFiles)
  \cup Edit("edit_product", {1}, ConcForms, ConcFiles, ConcTimes)
  \cup Edit("edit_category", CategoryIds, CategoryForms, ConcFiles, ConcTimes)
  \cup delete_product_requests
  \cup Delete("delete_category", CategoryIds)
  \cup record_view_requests
  \cup index_requests
  \cup {Anonymous("delete_category")}

InFlight(i) == procs[i].pc \notin {"idle", "done"}

\* The thread of a create-product request that has read the products file
\* and not yet written it.
Creating(p) ==
  /\ p.req.op = "admin"
  /\ p.pc \in {"save_image", "save_image: write", "save_products",
              "save_products: json.dump"}
  /\ ~p.reset

\* Thread i has taken the step x.p of its handler: the files and the folder
\* are as the step left them; when the handler is done the response is sent
\* and the thread is free.
Commit(i, x) ==
  /\ productsFile' = x.pf
  /\ categoriesFile' = x.cf
  /\ uploads' = x.up
  /\ IF x.p.pc = "done"
     THEN /\ resp' = Response(x.p)
          /\ procs' = [procs EXCEPT ![i] = IdleProc]
     ELSE /\ resp' = resp
          /\ procs' = [procs EXCEPT ![i] = x.p]

\* A request arrives and is given to a thread: @login_required and the
\* handler up to its first call.  (Requests are taken by the first idle
\* thread: which one is immaterial.)
Begin(i, req) ==
  /\ procs[i].pc = "idle"
  /\ \A j \in 1..(i-1) : procs[j].pc # "idle"
  /\ started < MaxReqs
  /\ Explored(req, View(productsFile), View(categoriesFile))
  /\ \E x \in {Start(i, req, productsFile, categoriesFile, uploads)} : Commit(i, x)
  /\ started' = started + 1
  /\ adminOverlap' = (adminOverlap \/
                        (req.authed /\ \E j \in 1..NProcs :
                                         j # i /\ InFlight(j) /\ procs[j].req.authed))
  /\ UNCHANGED lastCreate

\* The next step of thread i: one access to a file or to the folder, and
\* the handler up to its next call.
Step(i) ==
  /\ InFlight(i)
  /\ \E x \in {Exec([p |-> procs[i], pf |-> productsFile, cf |-> categoriesFile,
                     up |-> uploads])} :
       /\ Commit(i, x)
       /\ lastCreate' =
            IF procs[i].req.op = "admin" /\ procs[i].pc = "save_products: json.dump"
            THEN LET written == procs[i].products
                     loaded == SubSeq(written, 1, Len(written) - 1)
                 IN [made |-> TRUE, loaded |-> loaded, written |-> written,
                     id |-> written[Len(written)].id, stored |-> procs[i].stored,
                     code |-> x.p.code,
                     rivals |-> {j \in 1..NProcs : j # i /\ Creating(procs[j])},
                     raced |-> /\ lastCreate.made
                               /\ i \in lastCreate.rivals
                               /\ lastCreate.loaded = loaded]
            ELSE lastCreate
  /\ UNCHANGED <<started, adminOverlap>>

NextConc ==
  \/ \E i \in 1..NProcs, req \in conc_requests : Begin(i, req)
  \/ \E i \in 1..NProcs : Step(i)

\* SpecConc starts from a fresh deployment, or from the catalog the admin
\* has after creating one category and a product in it, or after creating
\* a second product with category_id 2 as well.
SeedCategory == [id |-> 1, name |-> "s",
                 image |-> url_for(FileName("category", 1, 0, ".webp"))]
SeedProduct == [id |-> 1, name |-> "s", description |-> "d", price |-> 10,
                image |-> url_for(FileName("product", 1, 0, ".webp")),
                category_id |-> 1, views |-> 0]
SeedProduct2 == [id |-> 2, name |-> "s", description |-> "d", price |-> 10,
                 image |-> url_for(FileName("product", 2, 0, ".webp")),
                 category_id |-> 2, views |-> 0]
SeedFile(kind, id) == File(FileName(kind, id, 0, ".webp"), "webp")

InitConc ==
  /\ \/ /\ productsFile \in InitFiles
        /\ categoriesFile \in InitFiles
        /\ uploads = {}
     \/ /\ productsFile = OkFile(<<SeedProduct>>)
        /\ categoriesFile = OkFile(<<SeedCategory>>)
        /\ uploads = {SeedFile("category", 1), SeedFile("product", 1)}
     \/ /\ productsFile = OkFile(<<SeedProduct, SeedProduct2>>)
        /\ categoriesFile = OkFile(<<SeedCategory>>)
        /\ uploads = {SeedFile("category", 1), SeedFile("product", 1),
                      SeedFile("product", 2)}
  /\ resp = NoResponse
  /\ procs = [i \in 1..NProcs |-> IdleProc]
  /\ started = 0
  /\ adminOverlap = FALSE
  /\ lastCreate = NoCreate

SpecConc == InitConc /\ [][NextConc]_vars

\* ------------------------- SpecUpload: the handlers that take an upload
\* Every kind of upload (each file name, decodable or not) through the
\* four callers of save_image, on catalogs of up to MaxUploadId products and
\* categories.
UploadIds == 1..MaxUploadId
UploadTimes == {1}
UploadForms == {Form(n, d, pr, "1") : n \in Names, d \in Descriptions, pr \in Prices}
UploadAdmin ==
  /\ NewId(View(productsFile)) <= MaxUploadId
  /\ \E req \in Create("admin", UploadForms, AllFileInputs) : Serve(req)
UploadCategory ==
  /\ NewId(View(categoriesFile)) <= MaxUploadId
  /\ \E req \in Create("manage_categories", CategoryForms, AllFileInputs) : Serve(req)
UploadEditProduct ==
  \E req \in Edit("edit_product", UploadIds, UploadForms, AllFileInputs, UploadTimes) :
    /\ req.op = "edit_product"
    /\ Serve(req)
UploadEditCategory ==
  \E req \in Edit("edit_category", UploadIds, CategoryForms, AllFileInputs, UploadTimes) :
    /\ req.op = "edit_category"
    /\ Serve(req)

NextUpload ==
  \/ UploadAdmin
  \/ UploadCategory
  \/ UploadEditProduct
  \/ UploadEditCategory

SpecUpload == Init /\ [][NextUpload]_vars

\* ------------- SpecCleanup: the cleaning handlers on missing image files
\* One request at a time, on the catalogs overlapping requests leave
\* behind, in which a record names an image file that is no longer in the
\* upload folder:
\*   - a visitor's record_view(1) loaded the products before
\*     delete_product(1) removed the image and wrote, and wrote its own list
\*     afterwards: product 1 is back, its image file is gone;
\*   - edit_category(1), without an upload, loaded the categories before
\*     delete_category(1) removed the image and wrote, and wrote afterwards:
\*     category 1 is back under its new name, its image file is gone;
\*   - both, around one delete_category(1): the category and its product
\*     are back, neither image file is there.
\* Each is the state SpecConc is in after such a schedule, all requests
\* answered.
ViewedProduct == [SeedProduct EXCEPT !.views = 1]
RenamedCategory == [SeedCategory EXCEPT !.name = "a"]
InitCleanup ==
  /\ \/ /\ productsFile = OkFile(<<ViewedProduct>>)
        /\ categoriesFile = OkFile(<<SeedCategory>>)
        /\ uploads = {SeedFile("category", 1)}
     \/ /\ productsFile = OkFile(<<SeedProduct2>>)
        /\ categoriesFile = OkFile(<<RenamedCategory>>)
        /\ uploads = {SeedFile("product", 2)}
     \/ /\ productsFile = OkFile(<<ViewedProduct>>)
        /\ categoriesFile = OkFile(<<RenamedCategory>>)
        /\ uploads = {}
  /\ resp = NoResponse
  /\ procs = [i \in 1..NProcs |-> IdleProc]
  /\ started = 0
  /\ adminOverlap = FALSE
  /\ lastCreate = NoCreate

CleanupIds == 1..MaxId
cleanup_requests ==
  Delete("delete_product", CleanupIds)
  \cup Delete("delete_category", CategoryUrlIds)
  \cup Edit("edit_product", CleanupIds, ProductForms, FileInputs, Times)
  \cup Edit("edit_category", CategoryIds, CategoryForms, FileInputs, Times)

CleanupDeleteProduct ==
  \E req \in cleanup_requests :
    /\ req.op = "delete_product"
    /\ Serve(req)
CleanupDeleteCategory ==
  \E req \in cleanup_requests :
    /\ req.op = "delete_category"
    /\ Serve(req)
CleanupEditProduct ==
  \E req \in cleanup_requests :
    /\ req.op = "edit_product"
    /\ Serve(req)
CleanupEditCategory ==
  \E req \in cleanup_requests :
    /\ req.op = "edit_category"
    /\ Serve(req)

NextCleanup ==
  \/ CleanupDeleteProduct
  \/ CleanupDeleteCategory
  \/ CleanupEditProduct
  \/ CleanupEditCategory

SpecCleanup == InitCleanup /\ [][NextCleanup]_vars

\* ================================================================= claims
\* The collections: what a load finds in the files.
Products == View(productsFile)
Categories == View(categoriesFile)
Range(coll) == {coll[i] : i \in 1..Len(coll)}
DistinctIds(coll) ==
  \A i, j \in 1..Len(coll) : i # j => coll[i].id # coll[j].id

\* SpecConc: thread i takes a step of its handler; the step it takes is the
\* one named by procs[i].pc.
StepOf(i) == InFlight(i) /\ procs'[i] # procs[i]
StepAt(i, pc) == procs[i].pc = pc /\ procs'[i] # procs[i]
\* ... and with that step the handler is done.
LastStep(i) == StepOf(i) /\ procs'[i].pc = "idle"

\* ------------------------------------------------------------------- C1
\* C1: in every reachable state every product's category_id is the id of
\* a category in the categories collection.
C1_ReferentialIntegrity ==
  \A p \in Range(Products) : p.category_id \in Ids(Categories)

\* ------------------------------------------------------------------- C2
\* C2: when delete_category(c) runs to completion for an existing category
\* c, afterwards no category has id c, no product has category_id c, the
\* image files of the category and of the removed products are gone from
\* the upload folder, and the products of other categories are all still
\* there, unchanged.
C2_DeleteCategoryCascades ==
  [][\A c \in CategoryUrlIds :
       (resp'.req.op = "delete_category" /\ resp'.req.id = c /\ c \in Ids(Categories))
       => /\ resp'.code = "redirect"
          /\ categoriesFile'.st = "ok" /\ productsFile'.st = "ok"
          /\ c \notin Ids(categoriesFile'.data)
          /\ \A p \in Range(productsFile'.data) : p.category_id # c
          /\ \A k \in Range(Categories) :
               k.id = c => ~Exists(uploads', basename_of(k.image))
          /\ \A p \in Range(Products) :
               p.category_id = c => ~Exists(uploads', basename_of(p.image))
          /\ productsFile'.data = SelectSeq(Products, LAMBDA p : p.category_id # c)
    ]_vars

\* A category was deleted together with a product of it, another product
\* stayed.
C2_Witness ==
  /\ resp.req.op = "delete_category"
  /\ resp.code = "redirect"
  /\ resp.count > 0
  /\ Products # <<>>

\* ------------------------------------------------------------------- C3
\* C3: no two products in the persisted products collection have the same
\* id, and no two categories the same id, also when the load and save steps
\* of requests interleave.
C3_UniqueIds == DistinctIds(Products) /\ DistinctIds(Categories)

\* A create-product request wrote its list while another one, which had
\* loaded its own, was in flight; the file holds two products.
C3_Witness ==
  /\ adminOverlap
  /\ lastCreate.made /\ lastCreate.rivals # {}
  /\ productsFile = OkFile(lastCreate.written)
  /\ Len(Products) >= 2

\* ------------------------------------------------------------------- C4
\* C4: when a create-product request writes after another one, both having
\* loaded the same products list before either wrote, then both computed
\* the same new id and the same image basename product_<id>, both report
\* success, and the later write leaves the list it loaded plus its own
\* product: exactly one product with that id, the earlier request's product
\* overwritten.
C4_CreateRace ==
  [][\A i \in 1..NProcs :
       (StepAt(i, "save_products: json.dump") /\ procs[i].req.op = "admin"
          /\ lastCreate'.raced)
       => /\ lastCreate'.id = lastCreate.id
          /\ lastCreate'.id = NewId(lastCreate'.loaded)
          /\ lastCreate.stored.kind = "product" /\ lastCreate.stored.ts = 0
          /\ BaseName(lastCreate'.stored.kind, lastCreate'.stored.id,
                      lastCreate'.stored.ts)
               = BaseName("product", lastCreate.stored.id, 0)
          /\ lastCreate.stored.id = lastCreate.id
          /\ lastCreate.code = "redirect" /\ lastCreate'.code = "redirect"
          /\ resp'.code = "redirect"
          /\ lastCreate.id \in Ids(lastCreate.written)
          /\ productsFile'.st = "ok" =>
               /\ productsFile'.data = lastCreate'.written
               /\ Len(productsFile'.data) = Len(lastCreate.written)
               /\ Cardinality({k \in 1..Len(productsFile'.data) :
                                 productsFile'.data[k].id = lastCreate'.id}) = 1
    ]_vars

\* Two create requests raced; the file holds the list they loaded and one
\* new product.
C4_Witness ==
  /\ lastCreate.raced
  /\ resp.req.op = "admin" /\ resp.code = "redirect"
  /\ productsFile = OkFile(lastCreate.written)
  /\ Len(Products) = Len(lastCreate.loaded) + 1

\* ------------------------------------------------------------------- C5
\* C5: with a single administrator whose requests never overlap, a
\* visitor's record_view never undoes an admin mutation: its write leaves
\* the ids, names, descriptions, prices, images and categories of the
\* products as the file held them when record_view opened it.
AdminValues(coll) ==
  [k \in 1..Len(coll) |-> [id |-> coll[k].id, name |-> coll[k].name,
                           description |-> coll[k].description,
                           price |-> coll[k].price,
                           image |-> coll[k].image,
                           category_id |-> coll[k].category_id]]

C5_NoAdminMutationLost ==
  [][\A i \in 1..NProcs :
       (StepAt(i, "save_products: json.dump") /\ procs[i].req.op = "record_view"
          /\ ~adminOverlap
          /\ procs[i].before.st = "ok" /\ productsFile'.st = "ok")
       => AdminValues(productsFile'.data) = AdminValues(procs[i].before.data)
    ]_vars

\* ------------------------------------------------------------------- C6
\* C6: a load of a missing or undecodable file returns the empty list and
\* leaves the file holding the empty list; a load of a decodable file
\* returns its contents and leaves it unchanged (index and the admin page
\* load both files and hand what the loads returned to the template).
C6_LoadResets ==
  [][(resp'.req.op = "index" \/ (resp'.req.op = "admin" /\ resp'.code = "ok"))
     => /\ IF productsFile.st = "ok"
           THEN resp'.shown.products = productsFile.data /\ productsFile' = productsFile
           ELSE resp'.shown.products = <<>> /\ productsFile' = OkFile(<<>>)
        /\ IF categoriesFile.st = "ok"
           THEN resp'.shown.categories = categoriesFile.data
                /\ categoriesFile' = categoriesFile
           ELSE resp'.shown.categories = <<>> /\ categoriesFile' = OkFile(<<>>)
    ]_vars

\* A visitor's page view found a file missing or undecodable: it showed no
\* products and left both files holding the empty list.
C6_Witness ==
  /\ resp.req.op = "index"
  /\ resp.reset
  /\ resp.shown.products = <<>>
  /\ productsFile = OkFile(<<>>)
  /\ categoriesFile = OkFile(<<>>)

\* ------------------------------------------------------------------- C7
\* C7: a request without the admin session never changes the categories and
\* changes the products at most by adding 1 to the views of one product:
\* what it writes is what the file held when it opened it, but for that;
\* record_view of an id not in the collection answers 404 and changes
\* nothing; views never decreases and is never negative.
C7_OnlyAdminMutates ==
  [][\A i \in 1..NProcs :
       /\ (StepOf(i) /\ ~procs[i].req.authed
             /\ procs[i].pc \in {"save_categories: json.dump",
                                 "load_categories: json.dump"}
             /\ procs[i].before.st = "ok" /\ categoriesFile'.st = "ok")
          => categoriesFile'.data = procs[i].before.data
       /\ (StepOf(i) /\ ~procs[i].req.authed
             /\ procs[i].pc \in {"save_products: json.dump",
                                 "load_products: json.dump"}
             /\ procs[i].before.st = "ok" /\ productsFile'.st = "ok")
          => \/ productsFile'.data = procs[i].before.data
             \/ \E k \in 1..Len(procs[i].before.data) :
                  productsFile'.data = [procs[i].before.data EXCEPT ![k].views = @ + 1]
       /\ (StepAt(i, "load_products") /\ procs[i].req.op = "record_view"
             /\ productsFile.st = "ok" /\ procs[i].req.id \notin Ids(productsFile.data))
          => (resp'.code = "404" /\ productsFile' = productsFile)
       /\ (StepOf(i)
             /\ procs[i].pc \in {"save_products: json.dump",
                                 "load_products: json.dump"}
             /\ procs[i].before.st = "ok" /\ productsFile'.st = "ok")
          => /\ \A p \in Range(procs[i].before.data), q \in Range(productsFile'.data) :
                  p.id = q.id => q.views >= p.views
             /\ \A q \in Range(productsFile'.data) : q.views >= 0
    ]_vars

\* ------------------------------------------------------------------- C8
UploadStep ==
  /\ resp'.req.file # NoUpload
  /\ resp'.code = "redirect"
  /\ resp'.req.op \in {"admin", "manage_categories", "edit_product", "edit_category"}

ExpectedBase(r, products, categories) ==
  CASE r.op = "admin" -> BaseName("product", NewId(products), 0)
    [] r.op = "manage_categories" -> BaseName("category", NewId(categories), 0)
    [] r.op = "edit_product" -> BaseName("product", r.id, r.t)
    [] r.op = "edit_category" -> BaseName("category", r.id, r.t)

\* The upload of the step was handled as one with extension ext: converted
\* exactly when Lower(ext) is supported and the bytes decode, else stored
\* under `fallback`; the stored file exists; the caller warned exactly when
\* nothing was converted.
Stored(ext, fallback) ==
  LET converts == Lower(ext) \in {".png", ".jpg", ".jpeg", ".bmp", ".gif", ".tiff"}
                  /\ resp'.req.file.valid
  IN /\ BaseName(resp'.stored.kind, resp'.stored.id, resp'.stored.ts)
          = ExpectedBase(resp'.req, Products, Categories)
     /\ resp'.warning = ~converts
     /\ Exists(uploads', resp'.stored)
     /\ IF converts
        THEN /\ resp'.stored.ext = ".webp"
             /\ File(resp'.stored, "webp") \in uploads'
        ELSE /\ resp'.stored.ext = fallback
             /\ File(resp'.stored, "original") \in uploads'

\* C8 as stated: the upload is converted exactly when its lower-cased
\* extension is supported and it decodes; otherwise the original bytes are
\* stored as basename + the ORIGINAL extension; the returned name exists
\* and the caller warns exactly when nothing was converted.
C8_Original ==
  [][UploadStep =>
       Stored(splitext(resp'.req.file.filename), splitext(resp'.req.file.filename))
    ]_vars

\* C8 amended: the extension that counts is the lower-cased extension of the
\* sanitised name, secure_filename(upload name): the upload is converted
\* exactly when that is supported and it decodes; otherwise the original
\* bytes are stored as basename + that lower-cased extension.
C8_SaveImage ==
  [][UploadStep =>
       Stored(splitext(secure_filename(resp'.req.file.filename)),
              Lower(splitext(secure_filename(resp'.req.file.filename))))
    ]_vars

\* An upload with an upper-case extension that could not be decoded was
\* stored, a warning flashed.
C8_Witness ==
  /\ resp.req.file = Upload("PHOTO.PNG", FALSE)
  /\ resp.code = "redirect"
  /\ resp.warning
  /\ Exists(uploads, resp.stored)

\* ------------------------------------------------------------------- C9
\* The image file record rec names is in the folder.
HasImage(folder, rec) == Exists(folder, basename_of(rec.image))
\* The product / category the form of request r makes of record old, with
\* image file n.
EditedProduct(old, r, n) ==
  [old EXCEPT !.name = r.form.name,
              !.description = r.form.description,
              !.price = ParseFloat(r.form.price).val,
              !.category_id = ParseInt(r.form.category_id).val,
              !.image = url_for(n)]
EditedCategory(old, r, n) ==
  [old EXCEPT !.name = r.form.name, !.image = url_for(n)]

Images ==
  [k \in 1..(Len(Products) + Len(Categories)) |->
     IF k <= Len(Products) THEN basename_of(Products[k].image)
     ELSE basename_of(Categories[k - Len(Products)].image)]

C10_ImagesConsistent ==
  /\ \A k \in DOMAIN Images : Exists(uploads, Images[k])
  /\ \A k, l \in DOMAIN Images : k # l => Images[k] # Images[l]

\* Two products and a category; an image re-uploaded in an edit; the last
\* request created product 2.
C10_Witness ==
  /\ Len(Products) = 2
  /\ Categories # <<>>
  /\ \E p \in Range(Products) : basename_of(p.image).ts > 0
  /\ resp.req.op = "admin" /\ resp.code = "redirect" /\ resp.stored.id = 2

====
